---- MODULE Spec2Model ----
(***************************************************************************)
(* Content-graph generator (scripts/generate-content-map.mjs) and the      *)
(* remark wiki-link transformer (src/plugins/remark-wiki-link.js).         *)
(*                                                                         *)
(* A JavaScript string is modelled as a sequence of one-character strings, *)
(* so that case folding, trimming, slugification, splitting and            *)
(* concatenation are computed character by character as the code does.     *)
(***************************************************************************)
EXTENDS Integers, Sequences, FiniteSets, TLC

(***************************************************************************)
(* Bounds of the model.                                                    *)
(***************************************************************************)
\* longest input string given to the normalizers in SpecNormalize
MaxLen == 4
\* most files one run discovers under src/content
MaxFiles == 3

(***************************************************************************)
(* Characters.                                                             *)
(***************************************************************************)
LowerLetters == {"a", "b", "c", "d", "e", "h", "m", "n", "o", "r", "t", "x", "z"}
Digits == {"0", "1"}
\* the characters of the class [a-z0-9-]
SlugChars == LowerLetters \cup Digits \cup {"-"}
\* the characters of the class \s
Whitespace == {" "}
\* the empty string; every place of the code that reads an optional string
\* tests it for truthiness, so null, undefined and "" are one value here
Empty == <<>>

\* String.prototype.toLowerCase on one character
LowerChar(c) ==
  CASE c = "A" -> "a"
    [] c = "B" -> "b"
    [] c = "D" -> "d"
    [] c = "O" -> "o"
    [] c = "T" -> "t"
    [] c = "X" -> "x"
    [] c = "Z" -> "z"
    [] OTHER -> c

\* String.prototype.toLowerCase
toLowerCase(s) == [i \in 1..Len(s) |-> LowerChar(s[i])]

RECURSIVE dropLeading(_, _)
\* s without its longest prefix of characters of the set cs
dropLeading(s, cs) ==
  IF s # <<>> /\ Head(s) \in cs THEN dropLeading(Tail(s), cs) ELSE s

RECURSIVE dropTrailing(_, _)
\* s without its longest suffix of characters of the set cs
dropTrailing(s, cs) ==
  IF s # <<>> /\ s[Len(s)] \in cs
  THEN dropTrailing(SubSeq(s, 1, Len(s) - 1), cs)
  ELSE s

\* String.prototype.trim
trim(s) == dropTrailing(dropLeading(s, Whitespace), Whitespace)

RECURSIVE replaceRuns(_, _, _)
\* s.replace(/[cs]+/g, r): every maximal run of characters of cs becomes r
replaceRuns(s, cs, r) ==
  IF s = <<>> THEN <<>>
  ELSE IF Head(s) \in cs
       THEN r \o replaceRuns(dropLeading(s, cs), cs, r)
       ELSE <<Head(s)>> \o replaceRuns(Tail(s), cs, r)

\* s.replace(/[^cs]/g, r): every character outside cs becomes r
replaceOutside(s, cs, r) ==
  [i \in 1..Len(s) |-> IF s[i] \in cs THEN s[i] ELSE r]

\* s.replace(/[^cs]/g, ""): every character outside cs is removed
stripOutside(s, cs) == SelectSeq(s, LAMBDA c : c \in cs)

\* s.replace(/^-|-$/g, ""): one leading and one trailing hyphen are removed
trimOneHyphen(s) ==
  LET a == IF s # <<>> /\ Head(s) = "-" THEN Tail(s) ELSE s
  IN  IF a # <<>> /\ a[Len(a)] = "-" THEN SubSeq(a, 1, Len(a) - 1) ELSE a

\* slugifyTitle without the collapse of repeated hyphens
slugifyTitle_noCollapse(input) ==
  trimOneHyphen(
    replaceOutside(replaceRuns(toLowerCase(input), Whitespace, <<"-">>),
                   SlugChars, "-"))

\* generate-content-map.mjs slugifyTitle
slugifyTitle(input) ==
  trimOneHyphen(
    replaceRuns(
      replaceOutside(replaceRuns(toLowerCase(input), Whitespace, <<"-">>),
                     SlugChars, "-"),
      {"-"}, <<"-">>))

\* remark-wiki-link.js sanitizeSlug
sanitizeSlug(value) ==
  dropTrailing(dropLeading(
    replaceRuns(
      stripOutside(replaceRuns(toLowerCase(value),
                               Whitespace, <<"-">>),
                   SlugChars),
      {"-"}, <<"-">>),
    {"-"}), {"-"})

\* remark-wiki-link.js slugifyHeading
slugifyHeading(value) == sanitizeSlug(value)

(***************************************************************************)
(* Splitting, joining and the wiki-link pattern.                           *)
(***************************************************************************)
RECURSIVE join(_, _)
\* Array.prototype.join
join(parts, sep) ==
  IF parts = <<>> THEN <<>>
  ELSE IF Len(parts) = 1 THEN parts[1]
  ELSE parts[1] \o sep \o join(Tail(parts), sep)

RECURSIVE splitAll(_, _)
\* String.prototype.split(sep) for a one-character separator
splitAll(s, sep) ==
  IF \A i \in 1..Len(s) : s[i] # sep THEN <<s>>
  ELSE LET k == CHOOSE i \in 1..Len(s) :
                  s[i] = sep /\ \A j \in 1..(i - 1) : s[j] # sep
       IN  <<SubSeq(s, 1, k - 1)>> \o splitAll(SubSeq(s, k + 1, Len(s)), sep)

\* String.prototype.split(sep, limit): the first limit pieces of the full split
split(s, sep, limit) ==
  LET all == splitAll(s, sep)
  IN  SubSeq(all, 1, IF Len(all) < limit THEN Len(all) ELSE limit)

\* element i of an array destructuring, undefined (Empty) when absent
pieceAt(pieces, i) == IF i <= Len(pieces) THEN pieces[i] ELSE Empty

Brackets == {"[", "]"}

RECURSIVE nextBracket(_, _)
\* the first index >= from that holds a bracket, or Len(text) + 1
nextBracket(text, from) ==
  IF from > Len(text) THEN Len(text) + 1
  ELSE IF text[from] \in Brackets THEN from
  ELSE nextBracket(text, from + 1)

\* /\[\[([^[\]]+)\]\]/ matches at index i (the lazy +? of the generator matches
\* the same spans: the group cannot hold a bracket)
matchesAt(text, i) ==
  IF i + 1 > Len(text) THEN FALSE
  ELSE IF text[i] # "[" \/ text[i + 1] # "[" THEN FALSE
  ELSE LET k == nextBracket(text, i + 2)
       IN  IF k < i + 3 \/ k + 1 > Len(text) THEN FALSE
           ELSE text[k] = "]" /\ text[k + 1] = "]"

RECURSIVE execFrom(_, _)
\* regex.exec from lastIndex: [index, end, inner] of the leftmost match, or
\* index 0 when there is none
execFrom(text, lastIndex) ==
  IF lastIndex > Len(text) THEN [index |-> 0, end |-> 0, inner |-> Empty]
  ELSE IF matchesAt(text, lastIndex)
       THEN LET k == nextBracket(text, lastIndex + 2)
            IN  [index |-> lastIndex, end |-> k + 2,
                 inner |-> SubSeq(text, lastIndex + 2, k - 1)]
       ELSE execFrom(text, lastIndex + 1)

\* the loop body of parseWikiLinksFromString for one match
linkOfMatch(m, text) ==
  LET inner == trim(m.inner)
      beforeAlias == pieceAt(split(inner, "|", 1), 1)
      titlePart == pieceAt(split(beforeAlias, "#", 1), 1)
      cleanTitle == trim(titlePart)
  IN  IF inner = Empty \/ cleanTitle = Empty THEN <<>>
      ELSE <<[title |-> cleanTitle, raw |-> SubSeq(text, m.index, m.end - 1)]>>

RECURSIVE parseFrom(_, _)
parseFrom(text, lastIndex) ==
  LET m == execFrom(text, lastIndex)
  IN  IF m.index = 0 THEN <<>>
      ELSE linkOfMatch(m, text) \o parseFrom(text, m.end)

\* generate-content-map.mjs parseWikiLinksFromString
parseWikiLinksFromString(text) ==
  IF text = Empty THEN <<>> ELSE parseFrom(text, 1)

(***************************************************************************)
(* The content tree: the markdown files a run can find under src/content.  *)
(* A file is its path relative to src/content (split at the separator),    *)
(* whether fs.readFile and gray-matter succeed on it, its front matter     *)
(* fields and its body.                                                    *)
(***************************************************************************)
wiki(inner) == <<"[", "[">> \o inner \o <<"]", "]">>
md(name) == name \o <<".", "m", "d">>
mdx(name) == name \o <<".", "m", "d", "x">>

File(parts, readable, parses, cuid, title, tags, aliases, body, resources, source, chains) ==
  [parts |-> parts, readable |-> readable, parses |-> parses,
   cuid |-> cuid, title |-> title, tags |-> tags, aliases |-> aliases,
   body |-> body, resources |-> resources, source |-> source, chains |-> chains]

sAb == <<"A", "b">>
sab == <<"a", "b">>
sSpaced == <<"a", " ", "b">>
sUnder == <<"a", "_", "b">>
sHyphen == <<"a", "-", "b">>
sZz == <<"z", "z">>
sC1 == <<"c", "1">>
sE == <<"e">>
sN == <<"n">>

\* essays-like collection e, notes-like collection n, a capitalised collection Z
fileA ==
  File(<<sE, md(sab)>>, TRUE, TRUE, Empty, <<" ">> \o sAb, <<<<"t">>>>, <<sZz, sC1, sab>>,
       wiki(sAb) \o <<" ">> \o wiki(sSpaced), <<>>, <<>>, <<wiki(sZz), wiki(sab)>>)
fileB ==
  File(<<sN, md(sab)>>, TRUE, TRUE, Empty, sAb, <<>>, <<>>,
       wiki(sZz) \o <<"x">> \o wiki(sZz \o <<"#", "h">>), <<wiki(sSpaced)>>, <<>>, <<>>)
fileC ==
  File(<<sN, md(sSpaced)>>, TRUE, TRUE, Empty, Empty, <<>>, <<sZz>>,
       wiki(sAb) \o wiki(sUnder), <<>>, <<>>, <<wiki(sAb \o <<"|", "x">>)>>)
fileD ==
  File(<<sE, md(sHyphen)>>, TRUE, TRUE, sC1, sab, <<>>, <<>>,
       wiki(sSpaced), <<>>, <<wiki(sAb)>>, <<wiki(sab)>>)
fileE ==
  File(<<sE, md(sUnder)>>, TRUE, TRUE, Empty, Empty, <<>>, <<>>,
       wiki(sAb), <<>>, <<>>, <<>>)
fileF ==
  File(<<sE, mdx(sSpaced)>>, TRUE, TRUE, Empty, <<"T">>, <<<<"x">>>>, <<<<"x">>, <<"X">>>>,
       wiki(sZz), <<>>, <<>>, <<>>)
fileG ==
  File(<<<<"Z">>, md(<<"d">>)>>, TRUE, TRUE, sC1 \o <<" ">>, <<"D">>, <<>>, <<>>,
       wiki(sab), <<>>, <<>>, <<>>)
fileRoot ==
  File(<<md(<<"r">>)>>, TRUE, TRUE, Empty, sAb, <<>>, <<>>, wiki(sAb), <<>>, <<>>, <<>>)
fileUnreadable ==
  File(<<sN, md(<<"x">>)>>, FALSE, TRUE, Empty, sAb, <<>>, <<>>, wiki(sAb), <<>>, <<>>, <<>>)
fileMalformed ==
  File(<<sN, md(<<"z">>)>>, TRUE, FALSE, Empty, sAb, <<>>, <<>>, wiki(sAb), <<>>, <<>>, <<>>)

FilePool ==
  {fileA, fileB, fileC, fileD, fileE, fileF, fileG,
   fileRoot, fileUnreadable, fileMalformed}

\* path.relative(contentRoot, absPath)
relPath(f) == join(f.parts, <<"/">>)
\* the directory that holds the file
dirOf(f) == SubSeq(f.parts, 1, Len(f.parts) - 1)

\* restPath.replace(/\.(md|mdx)$/i, "")
stripExt(s) ==
  LET n == Len(s)
      l == toLowerCase(s)
  IN  IF n >= 4 /\ SubSeq(l, n - 3, n) = <<".", "m", "d", "x">> THEN SubSeq(s, 1, n - 4)
      ELSE IF n >= 3 /\ SubSeq(l, n - 2, n) = <<".", "m", "d">> THEN SubSeq(s, 1, n - 3)
      ELSE s

\* withoutExt.split(/[\\/]/).map(slugifyTitle).filter(Boolean)
slugSegmentsOf(withoutExt) ==
  SelectSeq([i \in 1..Len(splitAll(withoutExt, "/")) |->
               slugifyTitle(splitAll(withoutExt, "/")[i])],
            LAMBDA seg : seg # Empty)

\* .filter(string).map(trim).filter(Boolean) of a front matter array
trimmedNonEmpty(list) ==
  SelectSeq([i \in 1..Len(list) |-> trim(list[i])], LAMBDA x : x # Empty)

RECURSIVE linksOfStrings(_, _)
\* the mentions of every string of a front matter field, tagged with origin
linksOfStrings(strings, origin) ==
  IF strings = <<>> THEN <<>>
  ELSE LET ls == parseWikiLinksFromString(Head(strings))
       IN  [i \in 1..Len(ls) |-> [targetTitle |-> ls[i].title, origin |-> origin]]
           \o linksOfStrings(Tail(strings), origin)

\* the NodeInternal loadContentNodes builds from a readable, parseable file
nodeOfFile(f) ==
  LET collection == f.parts[1]
      restPath == join(Tail(f.parts), <<"/">>)
      withoutExt == stripExt(restPath)
      slugSegments == slugSegmentsOf(withoutExt)
      slug == join(slugSegments, <<"/">>)
      fmCuid == trim(f.cuid)
      fallbackId == collection \o <<"/">> \o slug
      title == IF trim(f.title) # Empty THEN trim(f.title)
               ELSE IF slugSegments # <<>> /\ slugSegments[Len(slugSegments)] # Empty
                    THEN slugSegments[Len(slugSegments)]
                    ELSE withoutExt
  IN  [id |-> IF fmCuid # Empty THEN fmCuid ELSE fallbackId,
       cuid |-> fmCuid,
       slug |-> slug,
       collection |-> collection,
       title |-> title,
       tags |-> trimmedNonEmpty(f.tags),
       aliases |-> trimmedNonEmpty(f.aliases),
       rawLinks |-> linksOfStrings(<<f.body>>, "body")
                    \o linksOfStrings(f.resources, "resources")
                    \o linksOfStrings(f.source, "source")
                    \o linksOfStrings(f.chains, "chains"),
       outboundLinks |-> <<>>,
       inboundLinks |-> <<>>,
       chainedLinks |-> <<>>,
       filePath |-> relPath(f)]

\* Map.prototype.has on the insertion-ordered nodesById
hasId(nodes, id) == \E i \in 1..Len(nodes) : nodes[i].id = id
\* Map.prototype.get on nodesById (the id is present)
getNode(nodes, id) == nodes[CHOOSE i \in 1..Len(nodes) : nodes[i].id = id]

(***************************************************************************)
(* State.                                                                  *)
(***************************************************************************)
VARIABLES
  pc,              \* "load", "resolve", "done": where main() is; "normalize" in SpecNormalize
  discovered,      \* the files findMarkdownFiles returned that the loop has taken, in order
  nodesById,       \* the Map of loadContentNodes, as its values in insertion order
  contentHealth,   \* the contentHealth accumulator of main()
  indices,         \* buildGraph: const indices
  edges,           \* buildGraph: const edges
  warningTracker,  \* buildGraph: const warningTracker
  cursor,          \* buildGraph: position <<node, raw link>> of the resolution loops
  resolutions,     \* the value resolveWikiLinkTarget returned for every raw link so far
  contentMap,      \* content-map.json as written by main()
  rendered,        \* the text value the transformer last visited and its newNodes
  normIn,          \* SpecNormalize: the string given to the normalizers
  normOut          \* SpecNormalize: what each normalizer returned for normIn, once called

vars ==
  <<pc, discovered, nodesById, contentHealth, indices, edges, warningTracker,
    cursor, resolutions, contentMap, rendered, normIn, normOut>>

graphVars ==
  <<discovered, nodesById, contentHealth, indices, edges, warningTracker,
    cursor, resolutions, contentMap, rendered>>

\* const contentHealth = {...} in main()
emptyHealth ==
  [badFiles |-> <<>>, unresolvedWikiLinks |-> <<>>, idCollisions |-> <<>>,
   missingCuids |-> <<>>, aliasConflicts |-> <<>>,
   orphans |-> [strict |-> <<>>, noInbound |-> <<>>, noOutbound |-> <<>>]]

emptyIndices == [titleIndex |-> <<>>, slugIndex |-> <<>>]

Init ==
  /\ pc = "load"
  /\ discovered = <<>>
  /\ nodesById = <<>>
  /\ contentHealth = emptyHealth
  /\ indices = emptyIndices
  /\ edges = <<>>
  /\ warningTracker = {}
  /\ cursor = <<1, 1>>
  /\ resolutions = <<>>
  /\ contentMap = <<>>
  /\ rendered = [value |-> Empty, newNodes |-> <<>>]
  /\ normIn = Empty
  /\ normOut = [slugifyTitle |-> <<>>, sanitizeSlug |-> <<>>]

(***************************************************************************)
(* loadContentNodes: one iteration of the loop over the files.             *)
(***************************************************************************)
badFile(f, error) == [filePath |-> relPath(f), error |-> error]

\* nodesById after the collision check with loading the later file over the earlier
registerNode_lastWins(nodes, node) ==
  IF hasId(nodes, node.id)
  THEN [i \in 1..Len(nodes) |-> IF nodes[i].id = node.id THEN node ELSE nodes[i]]
  ELSE Append(nodes, node)

\* nodesById after the collision check and nodesById.set of one iteration
registerNode(nodes, node) ==
  IF hasId(nodes, node.id) THEN nodes ELSE Append(nodes, node)

\* healthAfterLoad that skips a file whose front matter does not parse
\* without recording it
healthAfterLoad_silentParseError(health, nodes, f) ==
  IF Len(f.parts) < 2
  THEN [health EXCEPT !.badFiles = Append(@, badFile(f, "No collection segment"))]
  ELSE IF ~f.readable
  THEN [health EXCEPT !.badFiles = Append(@, badFile(f, "File read error"))]
  ELSE IF ~f.parses
  THEN health
  ELSE LET node == nodeOfFile(f)
           missing == IF node.cuid = Empty
                      THEN <<[filePath |-> relPath(f), collection |-> node.collection,
                              slug |-> node.slug, title |-> trim(f.title)]>>
                      ELSE <<>>
           collision == IF hasId(nodes, node.id)
                        THEN <<[id |-> node.id,
                                existingFile |-> getNode(nodes, node.id).filePath,
                                duplicateFile |-> relPath(f)]>>
                        ELSE <<>>
       IN  [health EXCEPT !.missingCuids = @ \o missing,
                          !.idCollisions = @ \o collision]

\* contentHealth after one iteration of the loop, for file f
healthAfterLoad(health, nodes, f) ==
  IF Len(f.parts) < 2
  THEN [health EXCEPT !.badFiles = Append(@, badFile(f, "No collection segment"))]
  ELSE IF ~f.readable
  THEN [health EXCEPT !.badFiles = Append(@, badFile(f, "File read error"))]
  ELSE IF ~f.parses
  THEN [health EXCEPT !.badFiles = Append(@, badFile(f, "Frontmatter parse error"))]
  ELSE LET node == nodeOfFile(f)
           missing == IF node.cuid = Empty
                      THEN <<[filePath |-> relPath(f), collection |-> node.collection,
                              slug |-> node.slug, title |-> trim(f.title)]>>
                      ELSE <<>>
           collision == IF hasId(nodes, node.id)
                        THEN <<[id |-> node.id,
                                existingFile |-> getNode(nodes, node.id).filePath,
                                duplicateFile |-> relPath(f)]>>
                        ELSE <<>>
       IN  [health EXCEPT !.missingCuids = @ \o missing,
                          !.idCollisions = @ \o collision]

\* findMarkdownFiles walks one directory at a time: a file can follow the files
\* taken so far when its directory is the last file's or was not entered yet
walkAllows(f) ==
  /\ \A i \in 1..Len(discovered) : discovered[i] # f
  /\ IF discovered = <<>> THEN TRUE
     ELSE IF dirOf(discovered[Len(discovered)]) = dirOf(f) THEN TRUE
     ELSE \A i \in 1..Len(discovered) : dirOf(discovered[i]) # dirOf(f)

loadFile(f) ==
  /\ pc = "load"
  /\ Len(discovered) < MaxFiles
  /\ walkAllows(f)
  /\ discovered' = Append(discovered, f)
  /\ contentHealth' = healthAfterLoad(contentHealth, nodesById, f)
  /\ nodesById' = IF ~(Len(f.parts) >= 2 /\ f.readable /\ f.parses)
                  THEN nodesById
                  ELSE registerNode(nodesById, nodeOfFile(f))
  /\ UNCHANGED <<pc, indices, edges, warningTracker, cursor, resolutions,
                 contentMap, rendered, normIn, normOut>>

(***************************************************************************)
(* buildIndices and resolveWikiLinkTarget.                                 *)
(***************************************************************************)
\* the ids (in Map order) of the nodes one of whose keys is key, keySets[i]
\* being the keys of node i: the Set that add(map, key, id) builds for key
idsUnder(nodes, keySets, key) ==
  LET hits == SelectSeq([i \in 1..Len(nodes) |-> i], LAMBDA i : key \in keySets[i])
  IN  [j \in 1..Len(hits) |-> nodes[hits[j]].id]

\* a Map of add() calls: key -> Set of ids; add ignores an empty key
indexBy(nodes, keySets) ==
  [key \in (UNION {keySets[i] : i \in 1..Len(nodes)}) \ {Empty} |->
     idsUnder(nodes, keySets, key)]

\* the keys buildIndices files a node under
titleKeysOf(n) == {n.title, toLowerCase(n.title)}
slugKeysOf(n) == {slugifyTitle(n.title), slugifyTitle(n.slug)}

\* the title keys of a node, were its aliases indexed like its title
titleKeysOf_withAliases(n) ==
  {n.title, toLowerCase(n.title)} \cup {n.aliases[i] : i \in 1..Len(n.aliases)}

\* buildIndices with the aliases added to the title index
buildIndices_withAliases(nodes) ==
  [titleIndex |-> indexBy(nodes, [i \in 1..Len(nodes) |-> titleKeysOf_withAliases(nodes[i])]),
   slugIndex |-> indexBy(nodes, [i \in 1..Len(nodes) |-> slugKeysOf(nodes[i])])]

\* generate-content-map.mjs buildIndices
buildIndices(nodes) ==
  [titleIndex |-> indexBy(nodes, [i \in 1..Len(nodes) |-> titleKeysOf(nodes[i])]),
   slugIndex |-> indexBy(nodes, [i \in 1..Len(nodes) |-> slugKeysOf(nodes[i])])]

\* Map.prototype.get: the Set under key, or undefined (the empty sequence;
\* a Set stored by add() is never empty)
mapGet(map, key) == IF key \in DOMAIN map THEN map[key] ELSE <<>>

\* the diagnostic texts of resolveWikiLinkTarget; the arrow of the source is
\* written "->"
ambiguousLinkMsg(rawTitle, ids) ==
  <<"Ambiguous link \"">> \o rawTitle \o <<"\" -> ">> \o join(ids, <<",", " ">>)
ambiguousSlugMsg(rawTitle, slugged, ids) ==
  <<"Ambiguous slug \"">> \o rawTitle \o <<"\" (-> ">> \o slugged \o <<") -> ">>
    \o join(ids, <<",", " ">>)
unresolvedMsg(rawTitle) ==
  <<"Unresolved wiki-link \"">> \o rawTitle \o <<"\"">>

\* resolveWikiLinkTarget returning the first candidate of an ambiguous title
resolveWikiLinkTarget_firstWins(rawTitle, idx) ==
  LET lower == toLowerCase(rawTitle)
      byRaw == mapGet(idx.titleIndex, rawTitle)
      exact == IF byRaw # <<>> THEN byRaw ELSE mapGet(idx.titleIndex, lower)
      slugged == slugifyTitle(rawTitle)
      slugMatches == mapGet(idx.slugIndex, slugged)
  IN  IF Len(exact) >= 1 THEN [toId |-> exact[1], warn |-> <<>>]
      ELSE IF Len(slugMatches) = 1 THEN [toId |-> slugMatches[1], warn |-> <<>>]
      ELSE IF Len(slugMatches) > 1
      THEN [toId |-> Empty, warn |-> <<ambiguousSlugMsg(rawTitle, slugged, slugMatches)>>]
      ELSE [toId |-> Empty, warn |-> <<unresolvedMsg(rawTitle)>>]

\* resolveWikiLinkTarget that consults the slug index before the title index
resolveWikiLinkTarget_slugFirst(rawTitle, idx) ==
  LET lower == toLowerCase(rawTitle)
      byRaw == mapGet(idx.titleIndex, rawTitle)
      exact == IF byRaw # <<>> THEN byRaw ELSE mapGet(idx.titleIndex, lower)
      slugged == slugifyTitle(rawTitle)
      slugMatches == mapGet(idx.slugIndex, slugged)
  IN  IF Len(slugMatches) = 1 THEN [toId |-> slugMatches[1], warn |-> <<>>]
      ELSE IF Len(slugMatches) > 1
      THEN [toId |-> Empty, warn |-> <<ambiguousSlugMsg(rawTitle, slugged, slugMatches)>>]
      ELSE IF Len(exact) = 1 THEN [toId |-> exact[1], warn |-> <<>>]
      ELSE IF Len(exact) > 1
      THEN [toId |-> Empty, warn |-> <<ambiguousLinkMsg(rawTitle, exact)>>]
      ELSE [toId |-> Empty, warn |-> <<unresolvedMsg(rawTitle)>>]

\* generate-content-map.mjs resolveWikiLinkTarget: the id returned (Empty for
\* null) and the message handed to warn(), if any
resolveWikiLinkTarget(rawTitle, idx) ==
  LET lower == toLowerCase(rawTitle)
      byRaw == mapGet(idx.titleIndex, rawTitle)
      exact == IF byRaw # <<>> THEN byRaw ELSE mapGet(idx.titleIndex, lower)
      slugged == slugifyTitle(rawTitle)
      slugMatches == mapGet(idx.slugIndex, slugged)
  IN  IF Len(exact) = 1 THEN [toId |-> exact[1], warn |-> <<>>]
      ELSE IF Len(exact) > 1
      THEN [toId |-> Empty, warn |-> <<ambiguousLinkMsg(rawTitle, exact)>>]
      ELSE IF Len(slugMatches) = 1 THEN [toId |-> slugMatches[1], warn |-> <<>>]
      ELSE IF Len(slugMatches) > 1
      THEN [toId |-> Empty, warn |-> <<ambiguousSlugMsg(rawTitle, slugged, slugMatches)>>]
      ELSE [toId |-> Empty, warn |-> <<unresolvedMsg(rawTitle)>>]

\* warn() without the warningTracker test
warned_noDedup(tracker, list, msgs) ==
  [tracker |-> tracker \cup {msgs[i] : i \in 1..Len(msgs)}, list |-> list \o msgs]

\* the closure warn(msg) of resolveWikiLinkTarget applied to the messages msgs
\* (none or one): warningTracker and contentHealth.unresolvedWikiLinks after it
warned(tracker, list, msgs) ==
  IF msgs = <<>> \/ msgs[1] \in tracker
  THEN [tracker |-> tracker, list |-> list]
  ELSE [tracker |-> tracker \cup {msgs[1]}, list |-> Append(list, msgs[1])]

(***************************************************************************)
(* buildGraph: the resolution loops, one raw link per step.                *)
(***************************************************************************)
RECURSIVE firstWithLinks(_, _)
\* the first node index >= i that has a raw link, or Len(nodes) + 1
firstWithLinks(nodes, i) ==
  IF i > Len(nodes) THEN i
  ELSE IF nodes[i].rawLinks # <<>> THEN i
  ELSE firstWithLinks(nodes, i + 1)

\* the position of the loops after the raw link at <<i, j>>
cursorAfter(nodes, i, j) ==
  IF j < Len(nodes[i].rawLinks) THEN <<i, j + 1>>
  ELSE <<firstWithLinks(nodes, i + 1), 1>>

\* edges after the loop body for one raw link, keeping links of a node to itself
edgesAfter_keepSelf(es, fromId, raw, toId) ==
  IF toId = Empty THEN es
  ELSE Append(es, [fromId |-> fromId, toId |-> toId, origin |-> raw.origin])

\* edges after the loop body of buildGraph for one raw link
edgesAfter(es, fromId, raw, toId) ==
  IF toId = Empty THEN es
  ELSE IF toId = fromId THEN es
  ELSE Append(es, [fromId |-> fromId, toId |-> toId, origin |-> raw.origin])

\* loadContentNodes returns and buildGraph starts
startGraph ==
  /\ pc = "load"
  /\ pc' = "resolve"
  /\ indices' = buildIndices(nodesById)
  /\ edges' = <<>>
  /\ warningTracker' = {}
  /\ cursor' = <<firstWithLinks(nodesById, 1), 1>>
  /\ UNCHANGED <<discovered, nodesById, contentHealth, resolutions, contentMap,
                 rendered, normIn, normOut>>

\* one iteration of the inner loop: resolve one raw link of one node
resolveNext ==
  /\ pc = "resolve"
  /\ cursor[1] <= Len(nodesById)
  /\ LET node == nodesById[cursor[1]]
         raw == node.rawLinks[cursor[2]]
         r == resolveWikiLinkTarget(raw.targetTitle, indices)
         w == warned(warningTracker, contentHealth.unresolvedWikiLinks, r.warn)
     IN  /\ warningTracker' = w.tracker
         /\ contentHealth' = [contentHealth EXCEPT !.unresolvedWikiLinks = w.list]
         /\ edges' = edgesAfter(edges, node.id, raw, r.toId)
         /\ resolutions' = Append(resolutions,
              [fromId |-> node.id, targetTitle |-> raw.targetTitle,
               origin |-> raw.origin, toId |-> r.toId])
  /\ cursor' = cursorAfter(nodesById, cursor[1], cursor[2])
  /\ UNCHANGED <<pc, discovered, nodesById, indices, contentMap, rendered,
                 normIn, normOut>>

(***************************************************************************)
(* buildGraph: link arrays, alias analysis, orphans, final order.          *)
(***************************************************************************)
\* toRef(id, kind) in buildGraph
toRef(nodes, id, kind) ==
  LET n == getNode(nodes, id)
  IN  [id |-> n.id, cuid |-> n.cuid, title |-> n.title, slug |-> n.slug,
       collection |-> n.collection, kind |-> kind]

\* the node arrays after one edge, without the push to the target's inboundLinks
withEdge_noInbound(nodes, edge) ==
  IF ~hasId(nodes, edge.fromId) \/ ~hasId(nodes, edge.toId) THEN nodes
  ELSE LET to == toRef(nodes, edge.toId, edge.origin)
       IN  [i \in 1..Len(nodes) |->
              LET n == nodes[i]
                  o == IF n.id = edge.fromId THEN Append(n.outboundLinks, to)
                       ELSE n.outboundLinks
                  c == IF n.id = edge.fromId /\ edge.origin = "chains"
                       THEN Append(n.chainedLinks, to)
                       ELSE n.chainedLinks
              IN  [n EXCEPT !.outboundLinks = o, !.chainedLinks = c]]

\* the node arrays after one edge, a "chains" edge being pushed to the
\* chainedLinks of its target as well
withEdge_chainOnTarget(nodes, edge) ==
  IF ~hasId(nodes, edge.fromId) \/ ~hasId(nodes, edge.toId) THEN nodes
  ELSE LET to == toRef(nodes, edge.toId, edge.origin)
           from == toRef(nodes, edge.fromId, edge.origin)
       IN  [i \in 1..Len(nodes) |->
              LET n == nodes[i]
                  o == IF n.id = edge.fromId THEN Append(n.outboundLinks, to)
                       ELSE n.outboundLinks
                  c == IF n.id = edge.fromId /\ edge.origin = "chains"
                       THEN Append(n.chainedLinks, to)
                       ELSE IF n.id = edge.toId /\ edge.origin = "chains"
                       THEN Append(n.chainedLinks, from)
                       ELSE n.chainedLinks
                  inb == IF n.id = edge.toId THEN Append(n.inboundLinks, from)
                         ELSE n.inboundLinks
              IN  [n EXCEPT !.outboundLinks = o, !.inboundLinks = inb,
                            !.chainedLinks = c]]

\* the node arrays after the body of the loop over edges, for one edge
withEdge(nodes, edge) ==
  IF ~hasId(nodes, edge.fromId) \/ ~hasId(nodes, edge.toId) THEN nodes
  ELSE LET to == toRef(nodes, edge.toId, edge.origin)
           from == toRef(nodes, edge.fromId, edge.origin)
       IN  [i \in 1..Len(nodes) |->
              LET n == nodes[i]
                  o == IF n.id = edge.fromId THEN Append(n.outboundLinks, to)
                       ELSE n.outboundLinks
                  c == IF n.id = edge.fromId /\ edge.origin = "chains"
                       THEN Append(n.chainedLinks, to)
                       ELSE n.chainedLinks
                  inb == IF n.id = edge.toId THEN Append(n.inboundLinks, from)
                         ELSE n.inboundLinks
              IN  [n EXCEPT !.outboundLinks = o, !.inboundLinks = inb,
                            !.chainedLinks = c]]

RECURSIVE withEdges(_, _)
withEdges(nodes, es) ==
  IF es = <<>> THEN nodes ELSE withEdges(withEdge(nodes, Head(es)), Tail(es))

\* the reset of the link arrays and the loop over edges
populated(nodes, es) ==
  withEdges([i \in 1..Len(nodes) |->
               [nodes[i] EXCEPT !.outboundLinks = <<>>, !.inboundLinks = <<>>,
                                !.chainedLinks = <<>>]],
            es)

RECURSIVE dedupKeys(_)
\* a sequence of keys without its later repetitions: the key order of a Map
dedupKeys(keys) ==
  IF keys = <<>> THEN <<>>
  ELSE LET rest == dedupKeys(SubSeq(keys, 1, Len(keys) - 1))
           last == keys[Len(keys)]
       IN  IF \E i \in 1..Len(rest) : rest[i] = last THEN rest ELSE Append(rest, last)

RECURSIVE aliasEntries(_)
\* every {id, title, alias, filePath} pushed by analyzeAliases, in push order
aliasEntries(nodes) ==
  IF nodes = <<>> THEN <<>>
  ELSE LET n == Head(nodes)
       IN  [i \in 1..Len(n.aliases) |->
              [id |-> n.id, title |-> n.title, alias |-> n.aliases[i],
               filePath |-> n.filePath]]
           \o aliasEntries(Tail(nodes))

\* titleMap.get(titleLower): the first node with that lowercased title, as a
\* sequence of none or one {id, title, filePath}
titleOwner(nodes, titleLower) ==
  LET hits == SelectSeq(nodes, LAMBDA n : toLowerCase(n.title) = titleLower)
  IN  IF titleLower = Empty \/ hits = <<>> THEN <<>>
      ELSE <<[id |-> hits[1].id, title |-> hits[1].title, filePath |-> hits[1].filePath]>>

RECURSIVE flatten(_)
flatten(lists) == IF lists = <<>> THEN <<>> ELSE Head(lists) \o flatten(Tail(lists))

\* generate-content-map.mjs analyzeAliases: contentHealth.aliasConflicts
analyzeAliases(nodes) ==
  LET entries == aliasEntries(nodes)
      keys == dedupKeys([i \in 1..Len(entries) |-> toLowerCase(entries[i].alias)])
      under(k) == SelectSeq(entries, LAMBDA e : toLowerCase(e.alias) = k)
      duplicate(k) ==
        IF Len(under(k)) > 1
        THEN <<[type |-> "duplicate-alias", alias |-> k, nodes |-> under(k)]>>
        ELSE <<>>
      versusTitle(k) ==
        LET owner == titleOwner(nodes, k)
            others == IF owner = <<>> THEN <<>>
                      ELSE SelectSeq(under(k), LAMBDA e : e.id # owner[1].id)
        IN  [i \in 1..Len(others) |->
               [type |-> "alias-vs-title", alias |-> k, aliasNode |-> others[i],
                titleNode |-> owner[1]]]
  IN  flatten([i \in 1..Len(keys) |-> duplicate(keys[i])])
      \o flatten([i \in 1..Len(keys) |-> versusTitle(keys[i])])

\* the entry pushed to one of the orphan lists
orphanEntry(n) ==
  [id |-> n.id, cuid |-> n.cuid, title |-> n.title, collection |-> n.collection,
   slug |-> n.slug, filePath |-> n.filePath]

\* contentHealth.orphans as buildGraph sets it
orphansOf(nodes) ==
  LET strict == SelectSeq(nodes, LAMBDA n : n.inboundLinks = <<>> /\ n.outboundLinks = <<>>)
      noInbound == SelectSeq(nodes, LAMBDA n : n.inboundLinks = <<>>)
      noOutbound == SelectSeq(nodes, LAMBDA n : n.outboundLinks = <<>>)
  IN  [strict |-> [i \in 1..Len(strict) |-> orphanEntry(strict[i])],
       noInbound |-> [i \in 1..Len(noInbound) |-> orphanEntry(noInbound[i])],
       noOutbound |-> [i \in 1..Len(noOutbound) |-> orphanEntry(noOutbound[i])]]

\* the collation order of the characters of the model (punctuation, digits, letters)
CharOrder ==
  <<" ", "_", "-", ".", "/", "#", "|", "[", "]", "0", "1",
    "a", "b", "c", "d", "e", "h", "m", "n", "o", "r", "t", "x", "z">>
rank(c) == CHOOSE i \in 1..Len(CharOrder) : CharOrder[i] = LowerChar(c)

RECURSIVE primaryCompare(_, _)
\* -1, 0 or 1: the order of two strings by the ranks of their characters
primaryCompare(a, b) ==
  IF a = <<>> /\ b = <<>> THEN 0
  ELSE IF a = <<>> THEN -1
  ELSE IF b = <<>> THEN 1
  ELSE IF rank(Head(a)) < rank(Head(b)) THEN -1
  ELSE IF rank(Head(a)) > rank(Head(b)) THEN 1
  ELSE primaryCompare(Tail(a), Tail(b))

RECURSIVE caseCompare(_, _)
\* the tie-break of strings equal but for case: lowercase first
caseCompare(a, b) ==
  IF a = <<>> \/ b = <<>> THEN 0
  ELSE IF Head(a) = Head(b) THEN caseCompare(Tail(a), Tail(b))
  ELSE IF Head(a) = LowerChar(Head(a)) THEN -1 ELSE 1

\* String.prototype.localeCompare
localeCompare(a, b) ==
  IF primaryCompare(a, b) # 0 THEN primaryCompare(a, b) ELSE caseCompare(a, b)

\* a comparator that looks at the slug alone
compareNodes_slugOnly(a, b) == localeCompare(a.slug, b.slug)

\* the comparator of the final sort of buildGraph
compareNodes(a, b) ==
  IF a.collection # b.collection THEN localeCompare(a.collection, b.collection)
  ELSE localeCompare(a.slug, b.slug)

\* list with x inserted after the last element that does not compare above x
insertSorted(list, x) ==
  LET k == Cardinality({i \in 1..Len(list) : compareNodes(list[i], x) <= 0})
  IN  SubSeq(list, 1, k) \o <<x>> \o SubSeq(list, k + 1, Len(list))

RECURSIVE sortNodes(_)
\* [...nodesById.values()].sort(comparator): a stable sort
sortNodes(nodes) ==
  IF nodes = <<>> THEN <<>>
  ELSE insertSorted(sortNodes(SubSeq(nodes, 1, Len(nodes) - 1)), nodes[Len(nodes)])

\* the record main() writes to content-map.json for one node
publicNode(n) ==
  [id |-> n.id, cuid |-> n.cuid, slug |-> n.slug, collection |-> n.collection,
   title |-> n.title, tags |-> n.tags, aliases |-> n.aliases,
   outboundLinks |-> n.outboundLinks, inboundLinks |-> n.inboundLinks,
   chainedLinks |-> n.chainedLinks]

\* the rest of buildGraph once every raw link is resolved, and writeJSON
finishGraph ==
  /\ pc = "resolve"
  /\ cursor[1] > Len(nodesById)
  /\ pc' = "done"
  /\ nodesById' = populated(nodesById, edges)
  /\ contentHealth' = [contentHealth EXCEPT
                         !.aliasConflicts = analyzeAliases(nodesById),
                         !.orphans = orphansOf(populated(nodesById, edges))]
  /\ contentMap' = LET sorted == sortNodes(populated(nodesById, edges))
                   IN  [i \in 1..Len(sorted) |-> publicNode(sorted[i])]
  /\ UNCHANGED <<discovered, indices, edges, warningTracker, cursor, resolutions,
                 rendered, normIn, normOut>>

(***************************************************************************)
(* remark-wiki-link.js: the index over content-map.json and the transform. *)
(***************************************************************************)
\* the first entry of nodes filed under key, keys[i] being the key of entry i,
\* as none or one entry: Map.get on a Map filled with
\* "if (key && !map.has(key)) map.set(key, entry)"
firstUnder(nodes, keys, key) ==
  LET hits == SelectSeq([i \in 1..Len(nodes) |-> i], LAMBDA i : keys[i] = key)
  IN  IF key = Empty \/ hits = <<>> THEN <<>> ELSE <<nodes[hits[1]]>>

\* the keys buildContentIndex files an entry under
titleKeyOf(entry) == toLowerCase(trim(entry.title))
slugKeyOf(entry) == sanitizeSlug(IF entry.slug # Empty THEN entry.slug ELSE entry.id)
idKeyOf(entry) == sanitizeSlug(entry.id)

\* remark-wiki-link.js resolveTitleToEntry over CONTENT_INDEX =
\* buildContentIndex(nodes): none or one entry
resolveTitleToEntry(nodes, title) ==
  LET normalizedTitle == toLowerCase(trim(title))
      titleSlug == sanitizeSlug(title)
      byTitle == firstUnder(nodes, [i \in 1..Len(nodes) |-> titleKeyOf(nodes[i])],
                            normalizedTitle)
      bySlugKey == firstUnder(nodes, [i \in 1..Len(nodes) |-> slugKeyOf(nodes[i])],
                              titleSlug)
      byIdKey == firstUnder(nodes, [i \in 1..Len(nodes) |-> idKeyOf(nodes[i])],
                            titleSlug)
  IN  IF title = Empty THEN <<>>
      ELSE IF byTitle # <<>> THEN byTitle
      ELSE IF bySlugKey # <<>> THEN bySlugKey
      ELSE byIdKey

\* remark-wiki-link.js parseWikiLinkBody
parseWikiLinkBody(body) ==
  LET pieces == split(body, "|", 2)
      targetPart == pieceAt(pieces, 1)
      aliasPart == pieceAt(pieces, 2)
      target == split(targetPart, "#", 2)
  IN  [title |-> trim(pieceAt(target, 1)),
       header |-> trim(pieceAt(target, 2)),
       alias |-> trim(aliasPart)]

\* buildUrlForEntry that appends "#" and the fragment whenever a header is given
buildUrlForEntry_alwaysFragment(entry, header) ==
  LET base == <<"/">> \o entry.collection \o <<"/">> \o entry.slug \o <<"/">>
  IN  IF header = Empty THEN base ELSE base \o <<"#">> \o slugifyHeading(header)

\* remark-wiki-link.js buildUrlForEntry
buildUrlForEntry(entry, header) ==
  LET base == <<"/">> \o entry.collection \o <<"/">> \o entry.slug \o <<"/">>
      fragment == slugifyHeading(header)
  IN  IF header = Empty THEN base
      ELSE IF fragment # Empty THEN base \o <<"#">> \o fragment ELSE base

\* remark-wiki-link.js buildDisplayText
buildDisplayText(parsed) ==
  IF trim(parsed.alias) # Empty THEN trim(parsed.alias)
  ELSE IF trim(parsed.header) # Empty THEN trim(parsed.header)
  ELSE parsed.title

\* an mdast text node, in the shape of the link nodes
textNode(value) ==
  [type |-> "text", value |-> value, url |-> Empty, className |-> <<>>,
   wikiTitle |-> Empty, wikiHeader |-> Empty, wikiCollection |-> Empty,
   wikiSlug |-> Empty]

\* the link node pushed for a mention that resolveTitleToEntry does not resolve
missingLink(parsed) ==
  [type |-> "link", value |-> buildDisplayText(parsed), url |-> <<"#">>,
   className |-> <<"wikilink", "wikilink--missing">>,
   wikiTitle |-> Empty, wikiHeader |-> Empty, wikiCollection |-> Empty,
   wikiSlug |-> Empty]

\* the link node pushed for a mention resolved to entry
resolvedLink(parsed, entry) ==
  [type |-> "link", value |-> buildDisplayText(parsed),
   url |-> buildUrlForEntry(entry, parsed.header),
   className |-> <<"wikilink">>,
   wikiTitle |-> parsed.title, wikiHeader |-> parsed.header,
   wikiCollection |-> entry.collection, wikiSlug |-> entry.slug]

\* nodesOfMatch that pushes no text node for the text before the match
nodesOfMatch_noBefore(nodes, value, lastIndex, m) ==
  LET fullMatch == SubSeq(value, m.index, m.end - 1)
      parsed == parseWikiLinkBody(m.inner)
      entry == resolveTitleToEntry(nodes, parsed.title)
  IN  IF parsed.title = Empty THEN <<textNode(fullMatch)>>
      ELSE IF entry = <<>> THEN <<missingLink(parsed)>>
      ELSE <<resolvedLink(parsed, entry[1])>>

\* the nodes one iteration of the while loop of transform pushes for match m
nodesOfMatch(nodes, value, lastIndex, m) ==
  LET before == IF m.index > lastIndex
                THEN <<textNode(SubSeq(value, lastIndex, m.index - 1))>>
                ELSE <<>>
      fullMatch == SubSeq(value, m.index, m.end - 1)
      parsed == parseWikiLinkBody(m.inner)
      entry == resolveTitleToEntry(nodes, parsed.title)
  IN  before \o
      (IF parsed.title = Empty THEN <<textNode(fullMatch)>>
       ELSE IF entry = <<>> THEN <<missingLink(parsed)>>
       ELSE <<resolvedLink(parsed, entry[1])>>)

RECURSIVE scanFrom(_, _, _)
\* newNodes of the while loop of transform from lastIndex on, with the trailing text
scanFrom(nodes, value, lastIndex) ==
  LET m == execFrom(value, lastIndex)
  IN  IF m.index = 0
      THEN IF lastIndex <= Len(value)
           THEN <<textNode(SubSeq(value, lastIndex, Len(value)))>>
           ELSE <<>>
      ELSE nodesOfMatch(nodes, value, lastIndex, m) \o scanFrom(nodes, value, m.end)

\* the children that replace a text node with this value: the visitor of
\* remarkWikiLink (a value without a match is left as it is)
transformText(nodes, value) ==
  IF execFrom(value, 1).index = 0 THEN <<textNode(value)>>
  ELSE scanFrom(nodes, value, 1)

sOr == <<"O", " ", "r">>
sTb == <<"T", "b">>

\* the text values of the documents rendered
TextValues ==
  {wiki(sAb), wiki(sab), wiki(sSpaced), wiki(sUnder), wiki(sZz), wiki(sC1),
   wiki(sAb \o <<"#">> \o sOr \o <<"|">> \o sTb),
   wiki(sab \o <<"#", "_">>),
   wiki(sSpaced \o <<"#", "h">>),
   <<"x", " ">> \o wiki(sAb) \o <<" ">> \o wiki(sZz \o <<"|", "x">>) \o <<"o">>,
   wiki(<<" ", "|", "x">>),
   wiki(sAb \o <<"|", "x", "|", "z">>) \o wiki(<<" ", "|", "x">>) \o <<"a">>
     \o wiki(sZz \o <<"#", "h", "#", "e">>),
   <<"[">> \o wiki(sHyphen) \o <<"]">>}

\* the visitor of remarkWikiLink on one text node of a rendered document; a
\* run of the model follows one text node: the visitor carries nothing from
\* one text node to the next (the pattern's lastIndex is 0 again when the
\* loop ends)
transform(value) ==
  /\ pc = "done"
  /\ rendered.newNodes = <<>>
  /\ rendered' = [value |-> value, newNodes |-> transformText(contentMap, value)]
  /\ UNCHANGED <<pc, discovered, nodesById, contentHealth, indices, edges,
                 warningTracker, cursor, resolutions, contentMap, normIn, normOut>>

(***************************************************************************)
(* The run: the generator, then the rendering of documents.                *)
(***************************************************************************)
Next ==
  \/ \E f \in FilePool : loadFile(f)
  \/ startGraph
  \/ resolveNext
  \/ finishGraph
  \/ \E value \in TextValues : transform(value)

Spec == Init /\ [][Next]_vars

(***************************************************************************)
(* The normalizers on their own: every string up to MaxLen characters over *)
(* a letter, a capital, a digit, a space, a hyphen and a character outside *)
(* [a-z0-9-] is given to slugifyTitle and to sanitizeSlug.                 *)
(***************************************************************************)
NormAlphabet == {"a", "B", "1", " ", "-", "_"}
NormInputs == UNION {[1..n -> NormAlphabet] : n \in 0..MaxLen}

InitNormalize ==
  /\ pc = "normalize"
  /\ normIn \in NormInputs
  /\ normOut = [slugifyTitle |-> <<>>, sanitizeSlug |-> <<>>]
  /\ discovered = <<>>
  /\ nodesById = <<>>
  /\ contentHealth = emptyHealth
  /\ indices = emptyIndices
  /\ edges = <<>>
  /\ warningTracker = {}
  /\ cursor = <<1, 1>>
  /\ resolutions = <<>>
  /\ contentMap = <<>>
  /\ rendered = [value |-> Empty, newNodes |-> <<>>]

applySlugifyTitle ==
  /\ pc = "normalize"
  /\ normOut.slugifyTitle = <<>>
  /\ normOut' = [normOut EXCEPT !.slugifyTitle = <<slugifyTitle(normIn)>>]
  /\ UNCHANGED <<pc, normIn, graphVars>>

applySanitizeSlug ==
  /\ pc = "normalize"
  /\ normOut.sanitizeSlug = <<>>
  /\ normOut' = [normOut EXCEPT !.sanitizeSlug = <<sanitizeSlug(normIn)>>]
  /\ UNCHANGED <<pc, normIn, graphVars>>

NextNormalize == applySlugifyTitle \/ applySanitizeSlug

SpecNormalize == InitNormalize /\ [][NextNormalize]_vars

(***************************************************************************)
(* Properties.                                                             *)
(***************************************************************************)
\* only characters of [a-z0-9-], no leading, trailing or doubled hyphen
wellFormedSlug(s) ==
  /\ \A i \in 1..Len(s) : s[i] \in SlugChars
  /\ s # <<>> => s[1] # "-" /\ s[Len(s)] # "-"
  /\ \A i \in 1..(Len(s) - 1) : ~(s[i] = "-" /\ s[i + 1] = "-")

\* C9: normalization is idempotent for both variants: slugifyTitle and
\* sanitizeSlug each return their own result unchanged when applied to it, and
\* each result has only characters of [a-z0-9-] with no leading, trailing or
\* doubled hyphen.
C9_NormalizationIdempotent ==
  /\ \A i \in 1..Len(normOut.slugifyTitle) :
       /\ slugifyTitle(normOut.slugifyTitle[i]) = normOut.slugifyTitle[i]
       /\ wellFormedSlug(normOut.slugifyTitle[i])
  /\ \A i \in 1..Len(normOut.sanitizeSlug) :
       /\ sanitizeSlug(normOut.sanitizeSlug[i]) = normOut.sanitizeSlug[i]
       /\ wellFormedSlug(normOut.sanitizeSlug[i])

\* C9 witness: both normalizers have run on an input that each of them changes
\* and on which they differ (a disallowed character between hyphens).
C9_Witness ==
  /\ normOut.slugifyTitle # <<>> /\ normOut.sanitizeSlug # <<>>
  /\ normOut.slugifyTitle[1] # normIn
  /\ normOut.sanitizeSlug[1] # normIn
  /\ normOut.slugifyTitle[1] # normOut.sanitizeSlug[1]
  /\ \E i \in 1..Len(normIn) : normIn[i] = "_"
  /\ \E i \in 1..Len(normIn) : normIn[i] = "-"

(***************************************************************************)
(* Properties of the graph build.                                          *)
(***************************************************************************)
hasEntry(list, id) == \E k \in 1..Len(list) : list[k].id = id

\* what the build-time resolver returns for a title, over the indices of the run
builtTarget(title) == resolveWikiLinkTarget(title, indices).toId

\* C1 as stated: after buildGraph, for all loaded nodes A and B, a body mention
\* of A that the resolver maps to B puts an entry with id = A.id in
\* B.inboundLinks and an entry with id = B.id in A.outboundLinks.
C1_SymmetryEveryPair ==
  pc = "done" =>
    \A i \in 1..Len(nodesById) : \A j \in 1..Len(nodesById[i].rawLinks) :
      LET A == nodesById[i]
          raw == A.rawLinks[j]
          b == builtTarget(raw.targetTitle)
      IN  (raw.origin = "body" /\ b # Empty) =>
            /\ hasEntry(getNode(nodesById, b).inboundLinks, A.id)
            /\ hasEntry(A.outboundLinks, b)

\* C1 amended: after buildGraph, for all loaded nodes A and B other than A, a
\* body mention of A that the resolver maps to B puts an entry with id = A.id
\* in B.inboundLinks and an entry with id = B.id in A.outboundLinks.
C1_SymmetryDistinctPair ==
  pc = "done" =>
    \A i \in 1..Len(nodesById) : \A j \in 1..Len(nodesById[i].rawLinks) :
      LET A == nodesById[i]
          raw == A.rawLinks[j]
          b == builtTarget(raw.targetTitle)
      IN  (raw.origin = "body" /\ b # Empty /\ b # A.id) =>
            /\ hasEntry(getNode(nodesById, b).inboundLinks, A.id)
            /\ hasEntry(A.outboundLinks, b)

\* C1 witness: the graph is built and a body mention of one node resolved to
\* another node.
C1_Witness ==
  /\ pc = "done"
  /\ \E i \in 1..Len(nodesById) : \E j \in 1..Len(nodesById[i].rawLinks) :
       /\ nodesById[i].rawLinks[j].origin = "body"
       /\ builtTarget(nodesById[i].rawLinks[j].targetTitle) \notin {Empty, nodesById[i].id}

\* C2: self-referential mentions never produce an edge: no edge runs from a
\* node to itself, and once the graph is built no node (in nodesById or in
\* content-map.json) has an entry with its own id in its outboundLinks,
\* inboundLinks or chainedLinks.
C2_NoSelfEdge ==
  /\ \A k \in 1..Len(edges) : edges[k].fromId # edges[k].toId
  /\ \A i \in 1..Len(nodesById) :
       /\ ~hasEntry(nodesById[i].outboundLinks, nodesById[i].id)
       /\ ~hasEntry(nodesById[i].inboundLinks, nodesById[i].id)
       /\ ~hasEntry(nodesById[i].chainedLinks, nodesById[i].id)
  /\ \A i \in 1..Len(contentMap) :
       /\ ~hasEntry(contentMap[i].outboundLinks, contentMap[i].id)
       /\ ~hasEntry(contentMap[i].inboundLinks, contentMap[i].id)
       /\ ~hasEntry(contentMap[i].chainedLinks, contentMap[i].id)

\* C2 witness: the graph is built, a body mention and a front matter mention each
\* resolved to the node that holds it, and the graph has an edge besides.
C2_Witness ==
  /\ pc = "done"
  /\ \E k \in 1..Len(resolutions) :
       resolutions[k].toId = resolutions[k].fromId /\ resolutions[k].origin = "body"
  /\ \E k \in 1..Len(resolutions) :
       resolutions[k].toId = resolutions[k].fromId /\ resolutions[k].origin # "body"
  /\ edges # <<>>

\* the ids of the loaded nodes whose title is exactly title
idsTitled(title) ==
  {nodesById[i].id : i \in {k \in 1..Len(nodesById) : nodesById[k].title = title}}

\* sub occurs in s as a run of consecutive elements
occursIn(sub, s) ==
  \E k \in 0..(Len(s) - Len(sub)) : SubSeq(s, k + 1, k + Len(sub)) = sub

\* m is an "Ambiguous link" diagnostic for title
ambiguousFor(m, title) ==
  /\ Len(m) >= Len(title) + 2
  /\ SubSeq(m, 1, Len(title) + 2) = <<"Ambiguous link \"">> \o title \o <<"\" -> ">>

\* C3: when a title is the title of exactly two loaded nodes, every mention of
\* it resolved so far returned no target (so added no edge) and left an
\* ambiguity diagnostic for the title that lists the ids of both nodes.
C3_AmbiguousTitleNoEdge ==
  \A k \in 1..Len(resolutions) :
    LET r == resolutions[k]
    IN  Cardinality(idsTitled(r.targetTitle)) = 2 =>
          /\ r.toId = Empty
          /\ \A e \in 1..Len(edges) :
               ~(edges[e].fromId = r.fromId /\ edges[e].toId \in idsTitled(r.targetTitle))
               \/ \E k2 \in 1..Len(resolutions) :
                    /\ resolutions[k2].fromId = r.fromId
                    /\ resolutions[k2].toId = edges[e].toId
                    /\ resolutions[k2].targetTitle # r.targetTitle
          /\ \E i \in 1..Len(contentHealth.unresolvedWikiLinks) :
               LET m == contentHealth.unresolvedWikiLinks[i]
               IN  /\ ambiguousFor(m, r.targetTitle)
                   /\ \A id \in idsTitled(r.targetTitle) :
                        occursIn(id, SubSeq(m, Len(r.targetTitle) + 3, Len(m)))

\* C3 witness: a title held by exactly two nodes was mentioned by two different
\* nodes, one of them a holder of the title.
C3_Witness ==
  \E k1 \in 1..Len(resolutions) : \E k2 \in 1..Len(resolutions) :
    /\ Cardinality(idsTitled(resolutions[k1].targetTitle)) = 2
    /\ resolutions[k2].targetTitle = resolutions[k1].targetTitle
    /\ resolutions[k1].fromId \in idsTitled(resolutions[k1].targetTitle)
    /\ resolutions[k2].fromId \notin idsTitled(resolutions[k1].targetTitle)

\* the file can become a node: it has a collection segment, is read and parses
loadable(f) == Len(f.parts) >= 2 /\ f.readable /\ f.parses

\* for every discovered file, the node the loop builds from it (none for a
\* file that cannot be loaded), as a sequence of none or one node
RECURSIVE nodesOfFiles(_)
nodesOfFiles(files) ==
  IF files = <<>> THEN <<>>
  ELSE <<IF loadable(Head(files)) THEN <<nodeOfFile(Head(files))>> ELSE <<>>>>
         \o nodesOfFiles(Tail(files))

nodesOfDiscovered == nodesOfFiles(discovered)

\* the position in built (the nodes of the discovered files) of the first
\* file with the id of file k
firstWithId(built, k) ==
  CHOOSE j \in 1..k :
    /\ built[j] # <<>>
    /\ built[j][1].id = built[k][1].id
    /\ \A h \in 1..(j - 1) : built[h] = <<>> \/ built[h][1].id # built[k][1].id

\* node n holds the data of the file loaded as m
sameData(n, m) ==
  /\ n.id = m.id /\ n.cuid = m.cuid /\ n.title = m.title /\ n.slug = m.slug
  /\ n.collection = m.collection /\ n.tags = m.tags /\ n.aliases = m.aliases
  /\ n.rawLinks = m.rawLinks /\ n.filePath = m.filePath

\* C4: when two files map to the same id, the later-discovered one is in
\* idCollisions as the duplicate of the earlier one, is not a node, and the node
\* under that id holds the data of the earlier file; the ids of the node list
\* are pairwise distinct.
C4_FirstFileWinsId ==
  LET built == nodesOfDiscovered
  IN  /\ \A k \in 1..Len(discovered) :
           built[k] # <<>> =>
             LET first == built[firstWithId(built, k)][1]
             IN  /\ hasId(nodesById, first.id)
                 /\ sameData(getNode(nodesById, first.id), first)
                 /\ firstWithId(built, k) # k =>
                      /\ \E c \in 1..Len(contentHealth.idCollisions) :
                           contentHealth.idCollisions[c] =
                             [id |-> first.id, existingFile |-> first.filePath,
                              duplicateFile |-> relPath(discovered[k])]
                      /\ \A i \in 1..Len(nodesById) :
                           nodesById[i].filePath # relPath(discovered[k])
      /\ \A i \in 1..Len(nodesById) : \A j \in 1..Len(nodesById) :
           i # j => nodesById[i].id # nodesById[j].id
      /\ \A i \in 1..Len(contentMap) : \A j \in 1..Len(contentMap) :
           i # j => contentMap[i].id # contentMap[j].id
      /\ pc = "done" => Len(contentMap) = Len(nodesById)

\* C4 witness: the run is over, a file was dropped for the id of an earlier
\* file whose title differs from its own, and other nodes were loaded too.
C4_Witness ==
  LET built == nodesOfDiscovered
  IN  /\ pc = "done"
      /\ Len(nodesById) >= 2
      /\ \E k \in 1..Len(discovered) :
           /\ built[k] # <<>>
           /\ firstWithId(built, k) # k
           /\ built[k][1].title # built[firstWithId(built, k)][1].title

(***************************************************************************)
(* Properties that relate the build to the rendering.                      *)
(***************************************************************************)
\* C5: round trip between build and render: once content-map.json is written,
\* every mention title of the corpus that resolveWikiLinkTarget maps to a node
\* is mapped by resolveTitleToEntry, over the written node list, to that node.
C5_RenderResolvesAsBuild ==
  pc = "done" =>
    \A i \in 1..Len(nodesById) : \A j \in 1..Len(nodesById[i].rawLinks) :
      LET title == nodesById[i].rawLinks[j].targetTitle
          b == builtTarget(title)
          e == resolveTitleToEntry(contentMap, title)
      IN  b # Empty => (e # <<>> /\ e[1].id = b)

\* the link node is a navigable link (not the inert missing-link element)
navigable(n) ==
  n.type = "link" /\ ~(n.url = <<"#">> /\ n.className = <<"wikilink", "wikilink--missing">>)

\* C6: in the inline transformer a mention whose title is the title of more
\* than one node of the node list is never rendered as a navigable link.
C6_AmbiguousRenderedMissing ==
  \A k \in 1..Len(rendered.newNodes) :
    LET n == rendered.newNodes[k]
    IN  navigable(n) =>
          Cardinality({i \in 1..Len(contentMap) : contentMap[i].title = n.wikiTitle}) <= 1

\* the title matches no key of the indices of the run
matchesNoNode(title) ==
  /\ mapGet(indices.titleIndex, title) = <<>>
  /\ mapGet(indices.titleIndex, toLowerCase(title)) = <<>>
  /\ mapGet(indices.slugIndex, slugifyTitle(title)) = <<>>

\* C7: unresolvedWikiLinks never holds two equal messages, and a title that
\* matches no node has exactly one "Unresolved" entry however many mentions of
\* it were resolved.
C7_DiagnosticsDeduplicated ==
  LET list == contentHealth.unresolvedWikiLinks
  IN  /\ \A i \in 1..Len(list) : \A j \in 1..Len(list) : i # j => list[i] # list[j]
      /\ \A k \in 1..Len(resolutions) :
           (pc # "load" /\ matchesNoNode(resolutions[k].targetTitle)) =>
             Cardinality({i \in 1..Len(list) :
                            list[i] = unresolvedMsg(resolutions[k].targetTitle)}) = 1

\* C7 witness: one title that matches no node was mentioned three times, by
\* more than one node.
C7_Witness ==
  \E a \in 1..Len(resolutions) : \E b \in 1..Len(resolutions) :
    \E c \in 1..Len(resolutions) :
      /\ a < b /\ b < c
      /\ matchesNoNode(resolutions[a].targetTitle)
      /\ resolutions[b].targetTitle = resolutions[a].targetTitle
      /\ resolutions[c].targetTitle = resolutions[a].targetTitle
      /\ resolutions[a].fromId # resolutions[c].fromId

(***************************************************************************)
(* Aliases and resolution.                                                 *)
(***************************************************************************)
RECURSIVE withoutAliases(_)
\* the node set with every node's aliases replaced by the empty list
withoutAliases(nodes) ==
  IF nodes = <<>> THEN <<>>
  ELSE <<[Head(nodes) EXCEPT !.aliases = <<>>]>> \o withoutAliases(Tail(nodes))

RECURSIVE edgesOfLinks(_, _, _, _)
\* the edges the loop body of buildGraph adds for the raw links of one node
edgesOfLinks(es, fromId, links, idx) ==
  IF links = <<>> THEN es
  ELSE edgesOfLinks(
         edgesAfter(es, fromId, Head(links),
                    resolveWikiLinkTarget(Head(links).targetTitle, idx).toId),
         fromId, Tail(links), idx)

RECURSIVE edgesOfNodes(_, _, _)
\* the edges of the resolution loops of buildGraph over the nodes rest
edgesOfNodes(es, rest, idx) ==
  IF rest = <<>> THEN es
  ELSE edgesOfNodes(edgesOfLinks(es, Head(rest).id, Head(rest).rawLinks, idx),
                    Tail(rest), idx)

\* the titles resolution is asked about: those of the corpus and of the
\* rendered documents, and every alias of a loaded node
ProbeTitles ==
  {sAb, sab, sSpaced, sUnder, sHyphen, sZz, sC1, <<"x">>, <<"T">>, <<"D">>}
  \cup UNION {{nodesById[i].aliases[j] : j \in 1..Len(nodesById[i].aliases)} :
                i \in 1..Len(nodesById)}

aliasesOf(nodes) ==
  UNION {{nodes[i].aliases[j] : j \in 1..Len(nodes[i].aliases)} : i \in 1..Len(nodes)}

\* the id of the entry the transformer resolves title to, Empty for none
renderedTarget(nodes, title) ==
  LET e == resolveTitleToEntry(nodes, title)
  IN  IF e = <<>> THEN Empty ELSE e[1].id

\* both resolvers, the edges and the rendering are the same as for the node
\* set without aliases
aliasesNotRead ==
  LET bare == withoutAliases(nodesById)
      bareMap == withoutAliases(contentMap)
      idx == buildIndices(nodesById)
      bareIdx == buildIndices(bare)
  IN  /\ idx = bareIdx
      /\ pc # "load" => indices = bareIdx
      /\ \A t \in ProbeTitles :
           /\ resolveWikiLinkTarget(t, idx) = resolveWikiLinkTarget(t, bareIdx)
           /\ renderedTarget(contentMap, t) = renderedTarget(bareMap, t)
      /\ pc = "done" => edges = edgesOfNodes(<<>>, bare, bareIdx)
      /\ rendered.newNodes # <<>> =>
           rendered.newNodes = transformText(bareMap, rendered.value)

\* a title that is an alias of a node but no title key and no slug key of any
\* node is unresolved at build time
aliasOnlyUnresolvedAtBuild ==
  LET idx == buildIndices(nodesById)
  IN  \A t \in aliasesOf(nodesById) :
        (\A i \in 1..Len(nodesById) :
           /\ t \notin titleKeysOf(nodesById[i])
           /\ toLowerCase(t) \notin titleKeysOf(nodesById[i])
           /\ slugifyTitle(t) \notin slugKeysOf(nodesById[i]))
        => resolveWikiLinkTarget(t, idx) = [toId |-> Empty, warn |-> <<unresolvedMsg(t)>>]

beforeFirst(s, sep) ==
  IF \E i \in 1..Len(s) : s[i] = sep
  THEN SubSeq(s, 1, (CHOOSE i \in 1..Len(s) :
                       s[i] = sep /\ \A j \in 1..(i - 1) : s[j] # sep) - 1)
  ELSE s

\* s after its first sep (Empty when it has none)
afterFirst(s, sep) ==
  IF \E i \in 1..Len(s) : s[i] = sep
  THEN SubSeq(s, (CHOOSE i \in 1..Len(s) :
                    s[i] = sep /\ \A j \in 1..(i - 1) : s[j] # sep) + 1, Len(s))
  ELSE Empty

\* the title, the header and the alias of a mention with this inner text: the
\* inner text is cut at its first "|", the target at its first "#"
mentionTitle(inner) == trim(beforeFirst(beforeFirst(inner, "|"), "#"))
mentionHeader(inner) == trim(afterFirst(beforeFirst(inner, "|"), "#"))
mentionAlias(inner) == trim(afterFirst(inner, "|"))

RECURSIVE innersFrom(_, _)
innersFrom(text, lastIndex) ==
  LET m == execFrom(text, lastIndex)
  IN  IF m.index = 0 THEN <<>> ELSE <<m.inner>> \o innersFrom(text, m.end)

\* the inner texts of the mentions of a text, in order
mentionsOf(text) == innersFrom(text, 1)

\* the inner texts of the mentions of the rendered text that have a title
liveMentions == SelectSeq(mentionsOf(rendered.value), LAMBDA inner : mentionTitle(inner) # Empty)

\* the link nodes emitted for the rendered text, in order
linkNodes == SelectSeq(rendered.newNodes, LAMBDA n : n.type = "link")

\* C11 (as stated): the k-th link emitted for a text displays the alias of
\* the k-th mention with a title if it has one, else its header if it has one,
\* else its title, whether or not the mention resolves.
C11_DisplayAliasHeaderTitle ==
  rendered.newNodes # <<>> =>
    LET live == liveMentions
        links == linkNodes
    IN  \A k \in 1..Len(links) :
          k <= Len(live) =>
            links[k].value =
              IF mentionAlias(live[k]) # Empty THEN mentionAlias(live[k])
              ELSE IF mentionHeader(live[k]) # Empty THEN mentionHeader(live[k])
              ELSE mentionTitle(live[k])

RECURSIVE restored(_, _)
\* the text of a node sequence with each link node replaced by the mention it
\* was built from, the links taking the mentions in order
restored(nodes, mentions) ==
  IF nodes = <<>> THEN <<>>
  ELSE IF Head(nodes).type = "link"
       THEN (IF mentions = <<>> THEN <<>> ELSE wiki(Head(mentions)))
            \o restored(Tail(nodes), IF mentions = <<>> THEN <<>> ELSE Tail(mentions))
       ELSE Head(nodes).value \o restored(Tail(nodes), mentions)

\* C12: the nodes emitted for a text, with every link put back to its
\* mention, spell the text; there is one link per mention with a title, in the
\* order of the mentions (link k shows the display text of mention k and is
\* missing exactly when mention k does not resolve); no text is emitted as a
\* link and a mention without a title stays in the text.
C12_TextPreserved ==
  rendered.newNodes # <<>> =>
    LET live == liveMentions
        links == linkNodes
    IN  /\ restored(rendered.newNodes, live) = rendered.value
        /\ Len(links) = Len(live)
        /\ \A k \in 1..Len(links) :
             k <= Len(live) =>
               /\ links[k].value = buildDisplayText(parseWikiLinkBody(live[k]))
               /\ navigable(links[k]) <=>
                    resolveTitleToEntry(contentMap, mentionTitle(live[k])) # <<>>
        /\ \A i \in 1..Len(rendered.newNodes) :
             rendered.newNodes[i].type \in {"text", "link"}

\* C12 witness: a text with text around its mentions was rendered, two of its
\* mentions have a title and one has none.
C12_Witness ==
  /\ rendered.newNodes # <<>>
  /\ Len(liveMentions) >= 2
  /\ Len(mentionsOf(rendered.value)) > Len(liveMentions)
  /\ \E i \in 2..Len(rendered.newNodes) :
       /\ rendered.newNodes[i].type = "text"
       /\ \A j \in 1..Len(rendered.newNodes[i].value) :
            rendered.newNodes[i].value[j] \notin Brackets

(***************************************************************************)
(* A whole run as a function of the list of files findMarkdownFiles        *)
(* returns, and the properties that compare runs.                          *)
(***************************************************************************)
RECURSIVE loadContentNodes(_)
\* generate-content-map.mjs loadContentNodes: nodesById and contentHealth after
\* the loop over files
loadContentNodes(files) ==
  IF files = <<>> THEN [nodes |-> <<>>, health |-> emptyHealth]
  ELSE LET prev == loadContentNodes(SubSeq(files, 1, Len(files) - 1))
           f == files[Len(files)]
       IN  [nodes |-> IF loadable(f) THEN registerNode(prev.nodes, nodeOfFile(f))
                      ELSE prev.nodes,
            health |-> healthAfterLoad(prev.health, prev.nodes, f)]

RECURSIVE warnedOfLinks(_, _, _)
\* warningTracker and unresolvedWikiLinks after the raw links of one node
warnedOfLinks(w, links, idx) ==
  IF links = <<>> THEN w
  ELSE warnedOfLinks(
         warned(w.tracker, w.list, resolveWikiLinkTarget(Head(links).targetTitle, idx).warn),
         Tail(links), idx)

RECURSIVE warnedOfNodes(_, _, _)
\* warningTracker and unresolvedWikiLinks after the resolution loops over rest
warnedOfNodes(w, rest, idx) ==
  IF rest = <<>> THEN w
  ELSE warnedOfNodes(warnedOfLinks(w, Head(rest).rawLinks, idx), Tail(rest), idx)

\* generate-content-map.mjs buildGraph: the sorted nodes and contentHealth
buildGraph(nodes, health) ==
  LET idx == buildIndices(nodes)
      es == edgesOfNodes(<<>>, nodes, idx)
      w == warnedOfNodes([tracker |-> {}, list |-> health.unresolvedWikiLinks], nodes, idx)
      linked == populated(nodes, es)
  IN  [nodes |-> sortNodes(linked),
       health |-> [health EXCEPT !.unresolvedWikiLinks = w.list,
                                 !.aliasConflicts = analyzeAliases(nodes),
                                 !.orphans = orphansOf(linked)]]

RECURSIVE publicNodes(_)
\* the node list main() writes to content-map.json
publicNodes(nodes) ==
  IF nodes = <<>> THEN <<>> ELSE <<publicNode(Head(nodes))>> \o publicNodes(Tail(nodes))

\* generate-content-map.mjs main after loadContentNodes: the two artifacts
writtenAfter(loaded) ==
  LET graph == buildGraph(loaded.nodes, loaded.health)
  IN  [contentMap |-> publicNodes(graph.nodes), contentHealth |-> graph.health]

\* generate-content-map.mjs main: the two artifacts of a run over files
main(files) == writtenAfter(loadContentNodes(files))

\* the discovered files that are not defective, in discovery order
soundFiles == SelectSeq(discovered, loadable)

\* the error recorded for a defective file
defectOf(f) ==
  IF Len(f.parts) < 2 THEN "No collection segment"
  ELSE IF ~f.readable THEN "File read error"
  ELSE "Frontmatter parse error"

\* C13: every discovered file without a collection segment, that cannot be
\* read or whose front matter does not parse has one entry in badFiles, is no
\* node, and is named in no id collision and no missing-cuid entry; badFiles
\* holds nothing else; the nodes and the rest of the health report are those of
\* the run over the other discovered files alone, and so is the node list
\* artifact once the run is over.
C13_DefectiveFileOnlySkipped ==
  LET sound == loadContentNodes(soundFiles)
      bad == SelectSeq(discovered, LAMBDA f : ~loadable(f))
  IN  /\ Len(contentHealth.badFiles) = Len(bad)
      /\ \A k \in 1..Len(bad) :
           /\ contentHealth.badFiles[k] = badFile(bad[k], defectOf(bad[k]))
           /\ \A i \in 1..Len(nodesById) : nodesById[i].filePath # relPath(bad[k])
           /\ \A c \in 1..Len(contentHealth.idCollisions) :
                /\ contentHealth.idCollisions[c].existingFile # relPath(bad[k])
                /\ contentHealth.idCollisions[c].duplicateFile # relPath(bad[k])
           /\ \A c \in 1..Len(contentHealth.missingCuids) :
                contentHealth.missingCuids[c].filePath # relPath(bad[k])
      /\ Len(nodesById) = Len(sound.nodes)
      /\ \A i \in 1..Len(nodesById) :
           i <= Len(sound.nodes) => sameData(nodesById[i], sound.nodes[i])
      /\ contentHealth.idCollisions = sound.health.idCollisions
      /\ contentHealth.missingCuids = sound.health.missingCuids
      /\ pc = "done" =>
           LET run == writtenAfter(sound)
           IN  /\ contentMap = run.contentMap
               /\ [contentHealth EXCEPT !.badFiles = <<>>] = run.contentHealth

\* C13 witness: the run is over; two files with different defects were
\* discovered, and after a defective file a sound one that became a node.
C13_Witness ==
  /\ pc = "done"
  /\ \E j \in 1..Len(discovered) : \E k \in 1..Len(discovered) :
       /\ ~loadable(discovered[j]) /\ ~loadable(discovered[k])
       /\ defectOf(discovered[j]) # defectOf(discovered[k])
  /\ \E j \in 1..Len(discovered) : \E k \in (j + 1)..Len(discovered) :
       /\ ~loadable(discovered[j])
       /\ loadable(discovered[k])
       /\ \E i \in 1..Len(nodesById) : nodesById[i].filePath = relPath(discovered[k])

\* the orders findMarkdownFiles can return the discovered files in: the files
\* of one directory come together, in any order
discoveryOrders ==
  LET n == Len(discovered)
      orders == {[i \in 1..n |-> discovered[p[i]]] :
                   p \in {q \in [1..n -> 1..n] : \A i, j \in 1..n : i # j => q[i] # q[j]}}
  IN  {files \in orders :
         \A i, j, k \in 1..n :
           (i < j /\ j < k /\ dirOf(files[i]) = dirOf(files[k]))
             => dirOf(files[j]) = dirOf(files[i])}

\* the node list artifact is the same under every discovery order of the
\* files without an id collision
sameNodeListInEveryOrder ==
  (pc = "done" /\ contentHealth.idCollisions = <<>>) =>
    \A files \in discoveryOrders :
      LET run == main(files)
      IN  run.contentHealth.idCollisions = <<>> => run.contentMap = contentMap

\* the health report is the same under every discovery order of the files
\* without an id collision
sameHealthInEveryOrder ==
  (pc = "done" /\ contentHealth.idCollisions = <<>>) =>
    \A files \in discoveryOrders :
      LET run == main(files)
      IN  run.contentHealth.idCollisions = <<>> => run.contentHealth = contentHealth

\* C14 (as stated): a run without id collision ends with the node list
\* artifact (the same nodes in the same order, with the same outboundLinks,
\* inboundLinks and chainedLinks sequences) and the health report of the run
\* over the same files in any other discovery order without id collision.
C14_DiscoveryOrderIrrelevant ==
  sameNodeListInEveryOrder /\ sameHealthInEveryOrder

(***************************************************************************)
(* Properties of the order of the node list.                               *)
(***************************************************************************)
\* the characters of the model in the order of their UTF-16 code units
CodeUnitOrder ==
  <<" ", "#", "-", ".", "/", "0", "1", "A", "B", "D", "O", "T", "X", "Z", "[", "]", "_",
    "a", "b", "c", "d", "e", "h", "m", "n", "o", "r", "t", "x", "z", "|">>
codeUnit(c) == CHOOSE i \in 1..Len(CodeUnitOrder) : CodeUnitOrder[i] = c

RECURSIVE codeUnitCompare(_, _)
\* -1, 0 or 1: the order of two strings under the operators < and > of the
\* language, code unit by code unit
codeUnitCompare(a, b) ==
  IF a = <<>> /\ b = <<>> THEN 0
  ELSE IF a = <<>> THEN -1
  ELSE IF b = <<>> THEN 1
  ELSE IF codeUnit(Head(a)) < codeUnit(Head(b)) THEN -1
  ELSE IF codeUnit(Head(a)) > codeUnit(Head(b)) THEN 1
  ELSE codeUnitCompare(Tail(a), Tail(b))

\* the node list holds every loaded node exactly once
everyNodeOnce ==
  /\ Len(contentMap) = Len(nodesById)
  /\ \A i \in 1..Len(nodesById) :
       Cardinality({k \in 1..Len(contentMap) : contentMap[k].id = nodesById[i].id}) = 1

\* C15 (as stated): in the node list written at the end of the run every
\* node is followed by a node of a greater collection, or of the same
\* collection and a greater or equal slug, strings compared code unit by code
\* unit; the list holds every loaded node exactly once.
C15_SortedByCodeUnits ==
  pc = "done" =>
    /\ \A k \in 1..(Len(contentMap) - 1) :
         \/ codeUnitCompare(contentMap[k].collection, contentMap[k + 1].collection) < 0
         \/ /\ contentMap[k].collection = contentMap[k + 1].collection
            /\ codeUnitCompare(contentMap[k].slug, contentMap[k + 1].slug) <= 0
    /\ everyNodeOnce

\* C15 (amended): the same with strings compared in the collation order of
\* String.prototype.localeCompare, in which a capital sorts with its letter.
C15_SortedByLocaleOrder ==
  pc = "done" =>
    /\ \A k \in 1..(Len(contentMap) - 1) :
         \/ localeCompare(contentMap[k].collection, contentMap[k + 1].collection) < 0
         \/ /\ contentMap[k].collection = contentMap[k + 1].collection
            /\ localeCompare(contentMap[k].slug, contentMap[k + 1].slug) <= 0
    /\ everyNodeOnce

\* C15 witness: the node list has three nodes, two of one collection with
\* different slugs and one of a capitalised collection, and is not in the order
\* the nodes were loaded in.
C15_Witness ==
  /\ pc = "done"
  /\ Len(contentMap) = 3
  /\ \E j, k \in 1..3 :
       /\ contentMap[j].collection = contentMap[k].collection
       /\ contentMap[j].slug # contentMap[k].slug
  /\ \E k \in 1..3 : contentMap[k].collection = <<"Z">>
  /\ \E k \in 1..3 : contentMap[k].id # nodesById[k].id

(***************************************************************************)
(* Properties of the precedence of the build-time resolver.                *)
(***************************************************************************)
RECURSIVE idsWhere(_, _)
\* the ids of the nodes whose flag is set, in Map order
idsWhere(nodes, flags) ==
  IF nodes = <<>> THEN <<>>
  ELSE (IF Head(flags) THEN <<Head(nodes).id>> ELSE <<>>)
       \o idsWhere(Tail(nodes), Tail(flags))

RECURSIVE titledFlags(_, _)
titledFlags(nodes, key) ==
  IF nodes = <<>> THEN <<>>
  ELSE <<Head(nodes).title = key \/ toLowerCase(Head(nodes).title) = key>>
       \o titledFlags(Tail(nodes), key)

RECURSIVE sluggedFlags(_, _)
sluggedFlags(nodes, key) ==
  IF nodes = <<>> THEN <<>>
  ELSE <<key # Empty /\ (slugifyTitle(Head(nodes).title) = key
                          \/ slugifyTitle(Head(nodes).slug) = key)>>
       \o sluggedFlags(Tail(nodes), key)

\* the nodes a title matches exactly: those whose title, as written or
\* lowercased, is the raw title and, only when there is none, those whose
\* title, as written or lowercased, is the lowercased title
exactMatches(title) ==
  LET byRaw == idsWhere(nodesById, titledFlags(nodesById, title))
  IN  IF byRaw # <<>> THEN byRaw
      ELSE idsWhere(nodesById, titledFlags(nodesById, toLowerCase(title)))

\* the nodes whose slugified title or slug is the slugified title
slugMatchesOf(title) == idsWhere(nodesById, sluggedFlags(nodesById, slugifyTitle(title)))

\* C16: every raw link the resolver was asked about got the single node
\* that matches its title exactly when there is one, whatever the slug index
\* holds; no node and only the "Ambiguous link" diagnostic when several match
\* exactly; the outcome of the slug index (one node, or no node and "Ambiguous
\* slug") only when none matches exactly; and "Unresolved" is recorded exactly
\* for the titles that match nothing in either index.
C16_ResolverPrecedence ==
  \A k \in 1..Len(resolutions) :
    LET t == resolutions[k].targetTitle
        toId == resolutions[k].toId
        exact == exactMatches(t)
        slugs == slugMatchesOf(t)
        list == contentHealth.unresolvedWikiLinks
        recorded(msg) == \E i \in 1..Len(list) : list[i] = msg
    IN  /\ Len(exact) = 1 =>
             /\ toId = exact[1]
             /\ ~recorded(ambiguousLinkMsg(t, exact))
        /\ Len(exact) > 1 =>
             /\ toId = Empty
             /\ recorded(ambiguousLinkMsg(t, exact))
        /\ (exact = <<>> /\ Len(slugs) = 1) => toId = slugs[1]
        /\ (exact = <<>> /\ Len(slugs) > 1) => toId = Empty
        /\ recorded(ambiguousSlugMsg(t, slugifyTitle(t), slugs))
             <=> (exact = <<>> /\ Len(slugs) > 1)
        /\ recorded(unresolvedMsg(t)) <=> (exact = <<>> /\ slugs = <<>>)
        /\ (exact = <<>> /\ slugs = <<>>) => toId = Empty

\* C16 witness: the run is over; one raw link resolved to its single exact
\* match while the slug index holds several nodes for it, one was left
\* unresolved by several exact matches, and one resolved through the slug
\* index.
C16_Witness ==
  /\ pc = "done"
  /\ \E k \in 1..Len(resolutions) :
       /\ Len(exactMatches(resolutions[k].targetTitle)) = 1
       /\ Len(slugMatchesOf(resolutions[k].targetTitle)) > 1
       /\ resolutions[k].toId # Empty
  /\ \E k \in 1..Len(resolutions) :
       /\ Len(exactMatches(resolutions[k].targetTitle)) > 1
       /\ resolutions[k].toId = Empty
  /\ \E k \in 1..Len(resolutions) :
       /\ exactMatches(resolutions[k].targetTitle) = <<>>
       /\ Len(slugMatchesOf(resolutions[k].targetTitle)) = 1
       /\ resolutions[k].toId # Empty

(***************************************************************************)
(* Properties of the link arrays.                                          *)
(***************************************************************************)
RECURSIVE edgesOfResolutions(_)
\* the resolutions that gave a node other than the mentioning one, as edges
edgesOfResolutions(rs) ==
  IF rs = <<>> THEN <<>>
  ELSE (IF Head(rs).toId # Empty /\ Head(rs).toId # Head(rs).fromId
        THEN <<[fromId |-> Head(rs).fromId, toId |-> Head(rs).toId,
                origin |-> Head(rs).origin]>>
        ELSE <<>>)
       \o edgesOfResolutions(Tail(rs))

RECURSIVE sumOf(_)
sumOf(numbers) == IF numbers = <<>> THEN 0 ELSE Head(numbers) + sumOf(Tail(numbers))

RECURSIVE lengthsOf(_, _)
\* the lengths of the outbound ("out") or inbound link arrays of the nodes
lengthsOf(nodes, side) ==
  IF nodes = <<>> THEN <<>>
  ELSE <<IF side = "out" THEN Len(Head(nodes).outboundLinks)
         ELSE Len(Head(nodes).inboundLinks)>> \o lengthsOf(Tail(nodes), side)

\* the fields of a LinkRef other than kind are those of node n
refersTo(ref, n) ==
  /\ ref.id = n.id /\ ref.cuid = n.cuid /\ ref.title = n.title
  /\ ref.slug = n.slug /\ ref.collection = n.collection

\* C17: once the graph is built, the outboundLinks of a node are its
\* resolved non-self edges in order, each as a reference to the target with the
\* origin as kind, and its inboundLinks are the edges that end at it, each as a
\* reference to the source with the origin as kind; the outbound entries are as
\* many as the inbound entries and as the edges; the chainedLinks of a node are
\* its outbound entries of kind "chains", in order.
C17_OneEntryPerEdgeAndSide ==
  pc = "done" =>
    LET es == edgesOfResolutions(resolutions)
    IN  /\ es = edges
        /\ \A i \in 1..Len(nodesById) :
             LET n == nodesById[i]
                 out == SelectSeq(es, LAMBDA e : e.fromId = n.id)
                 inb == SelectSeq(es, LAMBDA e : e.toId = n.id)
             IN  /\ Len(n.outboundLinks) = Len(out)
                 /\ \A k \in 1..Len(out) :
                      k <= Len(n.outboundLinks) =>
                        /\ n.outboundLinks[k].kind = out[k].origin
                        /\ refersTo(n.outboundLinks[k], getNode(nodesById, out[k].toId))
                 /\ Len(n.inboundLinks) = Len(inb)
                 /\ \A k \in 1..Len(inb) :
                      k <= Len(n.inboundLinks) =>
                        /\ n.inboundLinks[k].kind = inb[k].origin
                        /\ refersTo(n.inboundLinks[k], getNode(nodesById, inb[k].fromId))
                 /\ n.chainedLinks = SelectSeq(n.outboundLinks, LAMBDA r : r.kind = "chains")
        /\ sumOf(lengthsOf(nodesById, "out")) = Len(es)
        /\ sumOf(lengthsOf(nodesById, "in")) = Len(es)
        /\ \A i \in 1..Len(contentMap) :
             LET n == getNode(nodesById, contentMap[i].id)
             IN  /\ contentMap[i].outboundLinks = n.outboundLinks
                 /\ contentMap[i].inboundLinks = n.inboundLinks
                 /\ contentMap[i].chainedLinks = n.chainedLinks

\* C17 witness: the graph is built; a node has an outbound entry of kind
\* "chains" and one of another kind, and the target of its "chains" edge has an
\* inbound entry of kind "chains".
C17_Witness ==
  /\ pc = "done"
  /\ \E i \in 1..Len(nodesById) :
       LET n == nodesById[i]
       IN  /\ n.chainedLinks # <<>>
           /\ Len(n.outboundLinks) > Len(n.chainedLinks)
           /\ \E j \in 1..Len(nodesById) :
                /\ nodesById[j].id = n.chainedLinks[1].id
                /\ \E k \in 1..Len(nodesById[j].inboundLinks) :
                     /\ nodesById[j].inboundLinks[k].id = n.id
                     /\ nodesById[j].inboundLinks[k].kind = "chains"

(***************************************************************************)
(* Properties of the alias diagnostics.                                    *)
(***************************************************************************)
\* the lowercased aliases of the loaded nodes
aliasKeys == {toLowerCase(a) : a \in aliasesOf(nodesById)}

\* the indices of the nodes that declare an alias equal to key but for case
declarers(key) ==
  {i \in 1..Len(nodesById) :
     \E j \in 1..Len(nodesById[i].aliases) : toLowerCase(nodesById[i].aliases[j]) = key}

\* C18 (as stated): once the run is over, a "duplicate-alias" conflict is
\* in the health report for a lowercased alias exactly when two or more
\* distinct nodes declare it.
C18_DuplicateAliasIffTwoNodes ==
  pc = "done" =>
    \A key \in aliasKeys :
      (\E c \in 1..Len(contentHealth.aliasConflicts) :
         /\ contentHealth.aliasConflicts[c].type = "duplicate-alias"
         /\ contentHealth.aliasConflicts[c].alias = key)
      <=> Cardinality(declarers(key)) >= 2

\* C19 (as stated): once the run is over, the health report holds an
\* "alias-vs-title" conflict for node A and its alias a whenever a node other
\* than A has a title equal to a but for case, and none when A is the only node
\* with such a title.
C19_AliasVersusTitleOfAnother ==
  pc = "done" =>
    \A i \in 1..Len(nodesById) : \A j \in 1..Len(nodesById[i].aliases) :
      LET A == nodesById[i]
          key == toLowerCase(A.aliases[j])
          holders == {h \in 1..Len(nodesById) : toLowerCase(nodesById[h].title) = key}
          reported == \E c \in 1..Len(contentHealth.aliasConflicts) :
                        /\ contentHealth.aliasConflicts[c].type = "alias-vs-title"
                        /\ contentHealth.aliasConflicts[c].alias = key
                        /\ contentHealth.aliasConflicts[c].aliasNode.id = A.id
                        /\ contentHealth.aliasConflicts[c].aliasNode.alias = A.aliases[j]
      IN  /\ (holders \ {i}) # {} => reported
          /\ holders = {i} => ~reported

(***************************************************************************)
(* Properties of the parsing of a mention.                                 *)
(***************************************************************************)
RECURSIVE titlesOf(_)
\* the titles parseWikiLinkBody gives for these inner texts, the empty ones left out
titlesOf(inners) ==
  IF inners = <<>> THEN <<>>
  ELSE (IF parseWikiLinkBody(Head(inners)).title # Empty
        THEN <<parseWikiLinkBody(Head(inners)).title>> ELSE <<>>)
       \o titlesOf(Tail(inners))

RECURSIVE loaderTitles(_)
\* the titles of the links parseWikiLinksFromString returns
loaderTitles(links) ==
  IF links = <<>> THEN <<>> ELSE <<Head(links).title>> \o loaderTitles(Tail(links))

\* C20 (as stated): for every mention of a rendered text the transformer's
\* title is the inner text up to its first "|" and first "#", its alias all
\* that follows the first "|" and its header all that follows the first "#" of
\* the target (each trimmed); the corpus loader extracts the same titles from
\* the text, in order, and skips exactly the mentions the transformer leaves
\* as text.
C20_SplitAtFirstSeparator ==
  rendered.newNodes # <<>> =>
    LET inners == mentionsOf(rendered.value)
    IN  /\ \A k \in 1..Len(inners) :
             parseWikiLinkBody(inners[k]) =
               [title |-> mentionTitle(inners[k]),
                header |-> mentionHeader(inners[k]),
                alias |-> mentionAlias(inners[k])]
        /\ loaderTitles(parseWikiLinksFromString(rendered.value)) = titlesOf(inners)

====
